---- MODULE Spec2Model ----
(***************************************************************************)
(* Model of the wayflutter embedder integration layer:                     *)
(*   - the task scheduler of src/src/task_runner.rs (run_task_runner),     *)
(*   - the configure handler of src/src/compositor.rs (Compositor::init),  *)
(*   - the compositor callbacks of src/src/compositor/callback.rs,         *)
(*   - the renderer and task-runner callbacks of src/src/callback.rs,      *)
(*   - start-up, event loop and drop of the session (src/src/main.rs).     *)
(***************************************************************************)
EXTENDS Integers, Sequences, FiniteSets, TLC

(* ---------------------------- bounds ----------------------------------- *)
\* largest engine-clock value and largest target timestamp explored
MaxTime == 3
\* number of tasks the Engine posts
MaxTasks == 3

\* number of configure events the windowing protocol delivers
MaxConfigures == 2
\* number of compositor callbacks the Engine invokes
MaxCalls == 3
\* largest number of layers in a presented frame
MaxLayers == 2
\* tasks posted, clock value and configures delivered in a whole session
MaxSessionTasks == 2
MaxSessionTime == 2
MaxSessionConfigures == 1
\* Submissions in the fairly polled scheduler.
MaxLiveTasks == 3
\* presents explored next to the configure handler
MaxViewCalls == 2

(* ------------------------ program constants ---------------------------- *)
\* buffer argument of futures::channel::mpsc::channel::<()>(1)
WakeBuffer == 1
\* size of the implicit view and of its EGL window surface at creation
InitWidth == 1600
InitHeight == 900
\* size_of::<ffi::FlutterBackingStore>(), in abstract units
SizeOfFlutterBackingStore == 2

VARIABLES
    now,        \* FlutterEngineGetCurrentTime(), nanoseconds
    chan,       \* messages in flight in the unbounded PendingTask channel (tx -> rx)
    posted,     \* number of tasks posted so far; the next task handle is posted + 1
    queue,      \* contents of the BinaryHeap<PendingTask>
    wake,       \* number of () messages held by the earlier_task_pushed channel
    rpc,        \* position of the `receiving` future: "recv" | "send"
    epc,        \* position of the `executing` future: "start" | "drain" | "sleep"
    timer,      \* the smol::Timer armed by `executing`
    executed,   \* calls of FlutterEngineRunTask made by the scheduler, in order
    session,    \* "running" | "failed": outcome of the select! of the event loop
    terminate,  \* errors sent on the fatal-error channel (state.terminate), in order
    serial,     \* number of configure events delivered to the event listener
    event,      \* the configure event delivered last
    ops,        \* Engine / protocol / size effects of the event listener, in order
    viewSize,   \* FlutterView::size.0 of each registered view: <<width, height>>
    shouldResize, \* FlutterView::size.1 of each registered view
    writing,    \* an event listener that holds the lock of a view's size, between its writes
    surfSize,   \* dimensions of each view's EGL window surface
    current,    \* what the render context is current on, on the calling thread
    gpu,        \* allocated GL object names: framebuffers, textures, renderbuffers
    tokens,     \* live Box<(GLuint, GLuint, GLuint)> allocations handed to the Engine
    calls,      \* number of compositor callbacks invoked so far
    last,       \* the compositor callback invoked last: arguments, GPU calls, result
    storeFailed, \* TRUE once a create/collect_backing_store call has returned false
    events,     \* the configure events delivered so far, in order
    resourceCurrent, \* TRUE while the resource context is current on the Engine's IO thread
    bindings,   \* GL object bindings of the render context (the four that present saves)
    presenting, \* a present that has read the view's size and not yet resized and bound
    rf,         \* position of run_flutter: "engine_init" .. "select" | "returned"
    life,       \* lifecycle steps of the Engine and of the state allocation, in order
    stateInitialized, \* FlutterEngine::state_initialized
    exitBy,     \* what made run_flutter return: "none" | "startup" | "wayland" | "fatal" | "task_runner"
    affinity    \* the last runs_task_on_current_thread call: calling thread and result

schedVars == <<now, chan, posted, queue, wake, rpc, epc, timer, executed>>
viewVars == <<serial, event, events, ops, viewSize, shouldResize, writing>>
gpuVars == <<surfSize, current, gpu, tokens, calls, last, storeFailed, resourceCurrent,
            bindings, presenting>>
startVars == <<rf, life, stateInitialized>>
lifeVars == <<startVars, exitBy, affinity>>
vars == <<schedVars, session, terminate, viewVars, gpuVars, lifeVars>>

Times == 0..MaxTime

(* ------------------------- task scheduler ------------------------------ *)

\* SatSub with its operands exchanged (now - target).
SatSubSwapped(a, b) == IF b > a THEN b - a ELSE 0

\* SatSub written as an absolute difference.
SatSubAbs(a, b) == IF a > b THEN a - b ELSE b - a

\* u64::saturating_sub
SatSub(a, b) == IF a > b THEN a - b ELSE 0

\* A PendingTask: the opaque FlutterTask handle and its target time.
PendingTask(id, target) == [id |-> id, target |-> target]

\* CmpGe without the reversal of Ord (a max-heap on target_nanos).
CmpGeNatural(x, y) == x.target >= y.target

\* Ord for PendingTask is reversed on target_nanos, so the greatest element
\* of the max-heap is a task with the least target: x >= y in that order.
CmpGe(x, y) == x.target <= y.target

\* BinaryHeap::peek: a greatest element under Ord (ties are unspecified).
PeekSet(q) == {x \in q : \A y \in q : CmpGe(x, y)}

\* Pop that leaves the heap as it was.
PopKeep(q, task) == q

\* BinaryHeap::pop after peek: removes the element that peek returned.
Pop(q, task) == q \ {task}

\* Earlier that also holds for a target equal to the top's.
EarlierOrEqual(q, target) ==
    IF q = {} THEN TRUE
    ELSE \E top \in q : (\A y \in q : top.target <= y.target) /\ top.target >= target

\* Earlier with the comparison turned around.
EarlierFlipped(q, target) ==
    IF q = {} THEN TRUE
    ELSE \E top \in q : (\A y \in q : top.target <= y.target) /\ top.target < target

\* The `earlier` flag computed by the receive step before the push.
Earlier(q, target) ==
    IF q = {} THEN TRUE
    ELSE \E top \in PeekSet(q) : top.target > target

\* Result codes FlutterEngineRunTask / FlutterEngineSendWindowMetricsEvent return.
EngineResults == {"kSuccess", "kInvalidArguments", "kInternalInconsistency"}

\* into_flutter_engine_result that takes every code for success.
IntoFlutterEngineResultAlwaysOk(code) == TRUE

\* into_flutter_engine_result: TRUE for Ok(()), FALSE for Err(_).
IntoFlutterEngineResult(code) == code = "kSuccess"

\* Timer::after(Duration::from_nanos(delay)): u64::MAX nanoseconds never elapse
\* within a session, any other delay is a deadline on the same monotonic clock.
Forever == [forever |-> TRUE, at |-> 0]

\* The timer that never elapses, whatever the delay.
TimerAfterNever(delay) == Forever

\* The timer armed one clock unit late.
TimerAfterLate(delay) == [forever |-> FALSE, at |-> now + delay + 1]

TimerAfter(delay) == [forever |-> FALSE, at |-> now + delay]

\* The record of one FlutterEngineRunTask call: the task, the clock value read
\* for the decision, the path, the result the Engine returned, and the handles
\* of the tasks that were waiting in the heap at that moment.
Ran(task, path, ok) ==
    [id |-> task.id, target |-> task.target, at |-> now, path |-> path, ok |-> ok,
     waiting |-> {q.id : q \in queue} \ {task.id}]

\* The post_task that pushes the task into the heap itself.
PostTaskPushesQueue ==
    /\ session = "running"
    /\ posted < MaxTasks
    /\ \E target \in Times :
         queue' = queue \cup {PendingTask(posted + 1, target)}
    /\ posted' = posted + 1
    /\ UNCHANGED <<now, chan, wake, rpc, epc, timer, executed, session, terminate, viewVars, gpuVars, lifeVars>>

\* The post_task that runs a task that is already due inside the callback.
PostTaskRunDue ==
    /\ session = "running"
    /\ posted < MaxTasks
    /\ \E target \in Times :
         IF SatSub(target, now) = 0
         THEN /\ executed' = Append(executed,
                                    Ran(PendingTask(posted + 1, target), "callback", TRUE))
              /\ UNCHANGED chan
         ELSE /\ chan' = Append(chan, PendingTask(posted + 1, target))
              /\ UNCHANGED executed
    /\ posted' = posted + 1
    /\ UNCHANGED <<now, queue, wake, rpc, epc, timer, session, terminate, viewVars, gpuVars, lifeVars>>

\* post_task_callback: the Engine posts a task from any of its threads.
PostTask ==
    /\ session = "running"
    /\ posted < MaxTasks
    /\ \E target \in Times :
         chan' = Append(chan, PendingTask(posted + 1, target))
    /\ posted' = posted + 1
    /\ UNCHANGED <<now, queue, wake, rpc, epc, timer, executed, session, terminate, viewVars, gpuVars, lifeVars>>

\* The monotonic engine clock advances.
Tick ==
    /\ session = "running"
    /\ now < MaxTime
    /\ now' = now + 1
    /\ UNCHANGED <<chan, posted, queue, wake, rpc, epc, timer, executed, session, terminate, viewVars, gpuVars, lifeVars>>

\* One iteration of the `while let Some(task) = rx.next().await` loop whose
\* task is already due: it is run at once; a failure ends the runner with Err.
ReceiveImmediate ==
    /\ session = "running"
    /\ rpc = "recv"
    /\ epc # "drain"
    /\ chan # <<>>
    /\ LET task == Head(chan) IN
       /\ SatSub(task.target, now) = 0
       /\ chan' = Tail(chan)
       /\ \E code \in EngineResults :
            LET ok == IntoFlutterEngineResult(code) IN
            /\ executed' = Append(executed, Ran(task, "immediate", ok))
            /\ session' = IF ok THEN session ELSE "failed"
            /\ exitBy' = IF ok THEN exitBy ELSE "task_runner"
    /\ UNCHANGED <<now, posted, queue, wake, rpc, epc, timer, terminate, viewVars, gpuVars,
                   startVars, affinity>>

\* One iteration of the receive loop whose task is in the future: it is pushed,
\* and a notification is sent when it became the earliest.  The send suspends
\* (poll_flush) while the channel holds more than its buffer.
ReceivePush ==
    /\ session = "running"
    /\ rpc = "recv"
    /\ epc # "drain"
    /\ chan # <<>>
    /\ LET task == Head(chan) IN
       /\ SatSub(task.target, now) # 0
       /\ chan' = Tail(chan)
       /\ queue' = queue \cup {task}
       /\ IF Earlier(queue, task.target)
          THEN /\ wake' = wake + 1
               /\ rpc' = IF wake + 1 > WakeBuffer THEN "send" ELSE "recv"
          ELSE UNCHANGED <<wake, rpc>>
    /\ UNCHANGED <<now, posted, epc, timer, executed, session, terminate, viewVars, gpuVars, lifeVars>>

\* First poll of the `executing` future.
ConsumerStart ==
    /\ session = "running"
    /\ epc = "start"
    /\ epc' = "drain"
    /\ UNCHANGED <<now, chan, posted, queue, wake, rpc, timer, executed, session, terminate, viewVars, gpuVars, lifeVars>>

\* The select! of `executing` that waits for the timer only.
SelectArmsTimerOnly == {"timer"}

\* The futures the select! of `executing` waits for: the timer and
\* earlier_task_pushed.next().
SelectArms == {"timer", "earlier_task_pushed"}

\* select!: the timer branch completes.
TimerElapsed ==
    /\ session = "running"
    /\ epc = "sleep"
    /\ "timer" \in SelectArms
    /\ ~timer.forever
    /\ now >= timer.at
    /\ epc' = "drain"
    /\ UNCHANGED <<now, chan, posted, queue, wake, rpc, timer, executed, session, terminate, viewVars, gpuVars, lifeVars>>

\* select!: earlier_task_pushed.next() yields a notification; taking a
\* message unparks the sender suspended in its send.
WakeReceived ==
    /\ session = "running"
    /\ epc = "sleep"
    /\ "earlier_task_pushed" \in SelectArms
    /\ wake > 0
    /\ wake' = wake - 1
    /\ rpc' = "recv"
    /\ epc' = "drain"
    /\ UNCHANGED <<now, chan, posted, queue, timer, executed, session, terminate, viewVars, gpuVars, lifeVars>>

\* Drain loop, the top of the heap is due: run it and pop it.  The result of
\* FlutterEngineRunTask is not looked at on this path.
DrainRun ==
    /\ session = "running"
    /\ epc = "drain"
    /\ \E task \in PeekSet(queue) :
         /\ SatSub(task.target, now) = 0
         /\ \E code \in EngineResults :
              executed' = Append(executed, Ran(task, "queue", IntoFlutterEngineResult(code)))
         /\ queue' = Pop(queue, task)
    /\ UNCHANGED <<now, chan, posted, wake, rpc, epc, timer, session, terminate, viewVars, gpuVars, lifeVars>>

\* Drain loop exit: the heap is empty (ret = u64::MAX) or its top is in the
\* future (ret = delay); the timer is armed and the future suspends in select!.
DrainArm ==
    /\ session = "running"
    /\ epc = "drain"
    /\ \/ /\ queue = {}
          /\ timer' = Forever
       \/ \E task \in PeekSet(queue) :
            /\ SatSub(task.target, now) # 0
            /\ timer' = TimerAfter(SatSub(task.target, now))
    /\ epc' = "sleep"
    /\ UNCHANGED <<now, chan, posted, queue, wake, rpc, executed, session, terminate, viewVars, gpuVars, lifeVars>>

(* --------------------- fatal-error channel ----------------------------- *)

\* The failed result that sends nothing on the fatal-error channel.
SendErrorDropped(err) == terminate

\* error_in_callback!: an Err is sent on state.terminate (unbounded_send).
SendError(err) == Append(terminate, err)

\* What terminate_rx.next().await yields: None when the channel is closed and
\* empty, else the message, an anyhow::Result<()>.
None == [some |-> FALSE, err |-> FALSE]
SomeErr == [some |-> TRUE, err |-> TRUE]
SomeOk == [some |-> TRUE, err |-> FALSE]

\* catch_fatal_errors without the `?` on the received Result.
CatchFatalErrorsInnerIgnored(item) == IF ~item.some THEN "failed" ELSE "ok"

\* A select! that is entered again after catch_fatal_errors completed with Err.
CatchFatalErrorsKeepRunning(item) == IF item.some /\ ~item.err THEN "ok" ELSE "running"

\* catch_fatal_errors and its select! arm (`result?`): the outcome of
\* run_flutter once terminate_rx.next() has completed with item.
\*   .context("terminate event channel closed")?  .context("fatal error")?
CatchFatalErrors(item) ==
    IF ~item.some THEN "failed"
    ELSE IF item.err THEN "failed"
    ELSE "ok"

\* catch_fatal_errors: the event loop receives an error and run_flutter returns.
CatchFatalError ==
    /\ session = "running"
    /\ terminate # <<>>
    /\ session' = CatchFatalErrors(SomeErr)
    /\ exitBy' = "fatal"
    /\ UNCHANGED <<schedVars, terminate, viewVars, gpuVars, startVars, affinity>>

(* ------------------- view registry and configure ----------------------- *)

\* The views inserted by Compositor::init: the implicit view only.
Registered == {0}
\* View identifiers the Engine may name in a present.
PresentViewIds == {0, 5}
\* Widths and heights a configure event may carry.
ConfigureDims == {0, 600, 800}
NoView == -1

\* get_view that falls back to the implicit view.
GetViewOrImplicit(view_id) == IF view_id \in Registered THEN view_id ELSE 0

\* Compositor::get_view: the registry entry, or None.
GetView(view_id) == IF view_id \in Registered THEN view_id ELSE NoView

\* The NonZero match that lets an event with one zero dimension through.
BothNonZeroEither(width, height) == width # 0 \/ height # 0

\* match (NonZero::new(width), NonZero::new(height)) { (Some, Some) => .. }
BothNonZero(width, height) == width # 0 /\ height # 0

\* The size write with width and height exchanged.
StoredSizeSwapped(width, height) == <<height, width>>

\* guard.0.width = width; guard.0.height = height
StoredSize(width, height) == <<width, height>>

\* One effect of the event listener: the metrics event handed to
\* FlutterEngineSendWindowMetricsEvent with the code the Engine returned, the
\* ack_configure request, or the write of the stored size.
Effect(op, s, view, width, height, result) ==
    [op |-> op, serial |-> s, view |-> view, width |-> width, height |-> height,
     result |-> result]

\* Kinds of zwlr_layer_surface_v1 events.
EventKinds == {"configure", "closed"}

\* The event listener of a layer surface, called with an event of one of the
\* kinds and with the view identifier in the surface's user data, one of ids:
\* look the view up; for a Configure event send the window metrics,
\* acknowledge, store; any other event is ignored.
EventListener(ids, kinds) ==
    /\ session = "running"
    /\ serial < MaxConfigures
    /\ \E id \in ids, kind \in kinds, width \in ConfigureDims, height \in ConfigureDims,
          code \in EngineResults :
         LET s == serial + 1
             ok == IntoFlutterEngineResult(code)
             metrics == Effect("metrics", s, id, width, height, code)
             ack == Effect("ack", s, id, width, height, "kSuccess")
             store == Effect("store", s, id, width, height, "kSuccess")
         IN
         /\ serial' = s
         /\ event' = [serial |-> s, view |-> id, width |-> width, height |-> height,
                      kind |-> kind]
         /\ events' = Append(events, event')
         /\ IF GetView(id) = NoView
            THEN /\ terminate' = SendError("Inconsistent")
                 /\ UNCHANGED <<ops, viewSize, shouldResize>>
            ELSE IF kind # "configure"
            THEN UNCHANGED <<terminate, ops, viewSize, shouldResize>>
            ELSE IF ~BothNonZero(width, height)
            THEN UNCHANGED <<terminate, ops, viewSize, shouldResize>>
            ELSE IF ~ok
            THEN /\ ops' = ops \o <<metrics>>
                 /\ terminate' = SendError("engine")
                 /\ UNCHANGED <<viewSize, shouldResize>>
            ELSE /\ ops' = ops \o <<metrics, ack, store>>
                 /\ viewSize' = [viewSize EXCEPT ![GetView(id)] = StoredSize(width, height)]
                 /\ shouldResize' = [shouldResize EXCEPT ![GetView(id)] = TRUE]
                 /\ UNCHANGED terminate
    /\ UNCHANGED <<schedVars, session, writing, gpuVars, lifeVars>>

\* No event listener is between its writes to a view's size.
NotWriting == [active |-> FALSE, view |-> NoView, serial |-> 0, stored |-> <<0, 0>>]

\* The size read that does not wait for the lock.
SizeLockIgnored == TRUE

\* this.size.lock() / view.size.read_blocking(): the lock of a view's size
\* can be taken when no listener holds it.
SizeLockFree == ~writing.active

\* The listener for an event of the implicit view up to its first write under
\* the lock of the size: look the view up, send the window metrics,
\* acknowledge, lock, guard.0.width = width.  Presents run on another thread
\* and may be called before the listener goes on.
ListenerWriteWidth ==
    /\ session = "running"
    /\ serial < MaxSessionConfigures
    /\ ~writing.active
    /\ \E id \in Registered, width \in ConfigureDims, height \in ConfigureDims,
          code \in EngineResults :
         LET s == serial + 1
             ok == IntoFlutterEngineResult(code)
             metrics == Effect("metrics", s, id, width, height, code)
             ack == Effect("ack", s, id, width, height, "kSuccess")
             stored == StoredSize(width, height)
         IN
         /\ serial' = s
         /\ event' = [serial |-> s, view |-> id, width |-> width, height |-> height,
                      kind |-> "configure"]
         /\ events' = Append(events, event')
         /\ IF GetView(id) = NoView
            THEN /\ terminate' = SendError("Inconsistent")
                 /\ UNCHANGED <<ops, viewSize, writing>>
            ELSE IF ~BothNonZero(width, height)
            THEN UNCHANGED <<terminate, ops, viewSize, writing>>
            ELSE IF ~ok
            THEN /\ ops' = ops \o <<metrics>>
                 /\ terminate' = SendError("engine")
                 /\ UNCHANGED <<viewSize, writing>>
            ELSE /\ ops' = ops \o <<metrics, ack>>
                 /\ viewSize' = [viewSize EXCEPT ![GetView(id)] = <<stored[1], @[2]>>]
                 /\ writing' = [active |-> TRUE, view |-> GetView(id), serial |-> s,
                                stored |-> stored]
                 /\ UNCHANGED terminate
    /\ UNCHANGED <<schedVars, session, shouldResize, gpuVars, lifeVars>>

\* The rest of that listener: guard.0.height = height, guard.1 = true, and
\* the guard is dropped.
ListenerWriteHeight ==
    /\ session = "running"
    /\ writing.active
    /\ viewSize' = [viewSize EXCEPT ![writing.view] = <<@[1], writing.stored[2]>>]
    /\ shouldResize' = [shouldResize EXCEPT ![writing.view] = TRUE]
    /\ ops' = Append(ops, Effect("store", writing.serial, event.view, event.width,
                                 event.height, "kSuccess"))
    /\ writing' = NotWriting
    /\ UNCHANGED <<schedVars, session, terminate, serial, event, events, gpuVars, lifeVars>>

\* The listener as Compositor::init installs it: on the implicit view's
\* surface (user data ViewId::new(0)), for a Configure event.
Configure == EventListener(Registered, {"configure"})

\* View identifiers a layer surface may carry as user data: that of the
\* implicit view and one the compositor has no view for.
ListenerViewIds == {0, 5}

\* The listener called for any event of a layer surface.
ListenerEvent == EventListener(ListenerViewIds, EventKinds)

(* ----------------------- compositor callbacks -------------------------- *)

NotCurrent == [kind |-> "none", view |-> NoView]
Surfaceless == [kind |-> "surfaceless", view |-> NoView]
OnSurface(view) == [kind |-> "surface", view |-> view]

\* One call into EGL / GL made by a callback.
Gl(op, args, ok) == [op |-> op, args |-> args, ok |-> ok]

Call(name, view, size, ret, gl, written) ==
    [call |-> name, view |-> view, struct_size |-> size, ret |-> ret, gl |-> gl,
     written |-> written]

\* One call of present_view_callback, with the frame it was given and, for each
\* backing-store layer whose swap succeeded, the bindings before and after it.
PresentCall(view, ret, gl, layers, drawn) ==
    [call |-> "present", view |-> view, struct_size |-> 0, ret |-> ret, gl |-> gl,
     written |-> FALSE, layers |-> layers, drawn |-> drawn]

\* ARRAY_BUFFER_BINDING, VERTEX_ARRAY_BINDING, DRAW_FRAMEBUFFER_BINDING and
\* TEXTURE_BINDING_2D of the render context.
Bindings(array_buffer, vertex_array, draw_framebuffer, texture_2d) ==
    [array_buffer |-> array_buffer, vertex_array |-> vertex_array,
     draw_framebuffer |-> draw_framebuffer, texture_2d |-> texture_2d]
Unbound == Bindings(0, 0, 0, 0)

\* opengl_state.vertex_array / vertex_buffer: the first names GenVertexArrays
\* and GenBuffers hand out in OpenGLState::init.
VertexArray == 1
VertexBuffer == 1

\* GetIntegerv of the four bindings ("save").
SaveBindings(b) == b

\* BindFramebuffer(DRAW_FRAMEBUFFER, 0), BindVertexArray, BindBuffer,
\* BindTexture(TEXTURE_2D, texture) made before DrawArrays.
DrawBindings(b, texture) ==
    [b EXCEPT !.draw_framebuffer = 0, !.vertex_array = VertexArray,
              !.array_buffer = VertexBuffer, !.texture_2d = texture]

\* The restore that leaves the layer's texture bound.
RestoreBindingsNoTexture(b, prev) ==
    [b EXCEPT !.array_buffer = prev.array_buffer, !.vertex_array = prev.vertex_array,
              !.draw_framebuffer = prev.draw_framebuffer]

\* BindBuffer / BindVertexArray / BindFramebuffer / BindTexture of the saved
\* names ("restore").
RestoreBindings(b, prev) ==
    [b EXCEPT !.array_buffer = prev.array_buffer, !.vertex_array = prev.vertex_array,
              !.draw_framebuffer = prev.draw_framebuffer, !.texture_2d = prev.texture_2d]

\* Bindings after glDelete* of a token's objects: a deleted object that is
\* bound in the current context is unbound.
UnbindDeleted(b, token) ==
    [b EXCEPT !.draw_framebuffer = IF @ = token[1] THEN 0 ELSE @,
              !.texture_2d = IF @ = token[2] THEN 0 ELSE @]

\* Bindings create leaves: BindFramebuffer(FRAMEBUFFER, framebuffer) stays, the
\* texture is unbound again with BindTexture(TEXTURE_2D, 0).
CreateBindings(b, framebuffer) ==
    [b EXCEPT !.draw_framebuffer = framebuffer, !.texture_2d = 0]

NoToken == <<0, 0, 0>>
PlatformViewLayer == [type |-> "platform_view", token |-> NoToken]
BackingStoreLayer(token) == [type |-> "backing_store", token |-> token]

\* Frames the Engine may present: up to MaxLayers layers, each a platform view
\* or a backing store the Engine still holds.
Frames ==
    UNION {[1..n -> {PlatformViewLayer} \cup {BackingStoreLayer(t) : t \in tokens}] :
             n \in 0..MaxLayers}

\* The GPU calls of the layer loop from layer i on; the swap of layer swapFail
\* (0: none) fails and ends the loop.
RECURSIVE LayerCalls(_, _, _, _)
\* The layer loop that stops at the first platform-view layer.
LayerCallsStopAtPlatformView(view, layers, i, swapFail) ==
    IF i > Len(layers) THEN <<>>
    ELSE IF layers[i].type = "backing_store"
    THEN <<Gl("draw", <<layers[i].token[2]>>, TRUE),
           Gl("swap_buffers", <<view>>, i # swapFail)>>
         \o (IF i = swapFail THEN <<>> ELSE LayerCalls(view, layers, i + 1, swapFail))
    ELSE <<>>

\* The layer loop that swaps before it draws.
LayerCallsSwapFirst(view, layers, i, swapFail) ==
    IF i > Len(layers) THEN <<>>
    ELSE IF layers[i].type = "backing_store"
    THEN <<Gl("swap_buffers", <<view>>, i # swapFail),
           Gl("draw", <<layers[i].token[2]>>, TRUE)>>
         \o (IF i = swapFail THEN <<>> ELSE LayerCalls(view, layers, i + 1, swapFail))
    ELSE LayerCalls(view, layers, i + 1, swapFail)

LayerCalls(view, layers, i, swapFail) ==
    IF i > Len(layers) THEN <<>>
    ELSE IF layers[i].type = "backing_store"
    THEN <<Gl("draw", <<layers[i].token[2]>>, TRUE),
           Gl("swap_buffers", <<view>>, i # swapFail)>>
         \o (IF i = swapFail THEN <<>> ELSE LayerCalls(view, layers, i + 1, swapFail))
    ELSE LayerCalls(view, layers, i + 1, swapFail)

\* The bindings the layer loop leaves from layer i on, starting from b, and
\* the record (layer, before, after) of every layer drawn and swapped; a failed
\* swap returns before the restore.
RECURSIVE LayerEffects(_, _, _, _, _)
LayerEffects(b, layers, i, swapFail, drawn) ==
    IF i > Len(layers) THEN [bindings |-> b, drawn |-> drawn]
    ELSE IF layers[i].type = "backing_store"
    THEN LET prev == SaveBindings(b)
             during == DrawBindings(b, layers[i].token[2])
             after == RestoreBindings(during, prev)
         IN IF i = swapFail
            THEN [bindings |-> during, drawn |-> drawn]
            ELSE LayerEffects(after, layers, i + 1, swapFail,
                              Append(drawn, [layer |-> i, before |-> b, after |-> after]))
    ELSE LayerEffects(b, layers, i + 1, swapFail, drawn)

\* The resize that leaves the surface as it was.
SurfaceResizeStale(size, width, height) == size

\* Surface::resize(&render_context, width, height)
SurfaceResize(size, width, height) == <<width, height>>

\* The prologue with the bind before the resize.
PresentPrologueBindFirst(resize, bind) == <<bind, resize>>

\* egl_surface.resize(..) then opengl_state.make_current(egl_surface)
PresentPrologue(resize, bind) == <<resize, bind>>

\* No present is between its size read and its resize.
NotPresenting == [active |-> FALSE, view |-> NoView, size |-> <<0, 0>>]

\* present_view_callback from the view lookup on, given the (width, height)
\* it read from the view's size under the lock.
PresentBody(view_id, layers, size) ==
    LET view == GetView(view_id) IN
    IF view = NoView
    THEN /\ last' = PresentCall(view_id, FALSE, <<>>, layers, <<>>)
         /\ UNCHANGED <<terminate, surfSize, current, bindings>>
    ELSE
      \E bindOk \in BOOLEAN, unbindOk \in BOOLEAN,
         swapFail \in {0} \cup {i \in 1..Len(layers) : layers[i].type = "backing_store"} :
        LET resize == Gl("resize", <<view, size[1], size[2]>>, TRUE)
            bind == Gl("make_current", <<view>>, bindOk)
            unbind == Gl("make_not_current", <<>>, unbindOk)
            loop == LayerCalls(view, layers, 1, swapFail)
            effects == LayerEffects(bindings, layers, 1, swapFail, <<>>)
        IN
        /\ surfSize' = [surfSize EXCEPT ![view] = SurfaceResize(@, size[1], size[2])]
        /\ IF ~bindOk
           THEN /\ last' = PresentCall(view_id, FALSE, PresentPrologue(resize, bind),
                                       layers, <<>>)
                /\ terminate' = SendError("make_current")
                /\ UNCHANGED <<current, bindings>>
           ELSE IF swapFail # 0
           THEN /\ last' = PresentCall(view_id, FALSE,
                                       PresentPrologue(resize, bind) \o loop,
                                       layers, effects.drawn)
                /\ terminate' = SendError("swap_buffers")
                /\ current' = OnSurface(view)
                /\ bindings' = effects.bindings
           ELSE IF ~unbindOk
           THEN /\ last' = PresentCall(view_id, FALSE,
                                       PresentPrologue(resize, bind) \o loop \o <<unbind>>,
                                       layers, effects.drawn)
                /\ terminate' = SendError("make_not_current")
                /\ current' = OnSurface(view)
                /\ bindings' = effects.bindings
           ELSE /\ last' = PresentCall(view_id, TRUE,
                                       PresentPrologue(resize, bind) \o loop \o <<unbind>>,
                                       layers, effects.drawn)
                /\ current' = NotCurrent
                /\ bindings' = effects.bindings
                /\ UNCHANGED terminate

\* The size guard of a view: (guard.width, guard.height).
ReadSize(view) == IF view = NoView THEN <<0, 0>> ELSE viewSize[view]

\* present_view_callback with no configure handled while it runs.
PresentView ==
    /\ session = "running"
    /\ calls < MaxCalls
    /\ ~presenting.active
    /\ SizeLockFree
    /\ calls' = calls + 1
    /\ \E view_id \in PresentViewIds, layers \in Frames :
         PresentBody(view_id, layers, ReadSize(GetView(view_id)))
    /\ UNCHANGED <<schedVars, session, viewVars, gpu, tokens, storeFailed, resourceCurrent,
                   presenting, lifeVars>>

\* present_view_callback on the Engine's raster thread up to the release of
\* the size lock: the view is looked up and its size is read.  The event
\* listener runs on the platform thread and may store a new size before the
\* present goes on.
PresentReadSize ==
    /\ session = "running"
    /\ calls < MaxCalls
    /\ ~presenting.active
    /\ SizeLockFree
    /\ \E view_id \in Registered :
         presenting' = [active |-> TRUE, view |-> view_id, size |-> ReadSize(GetView(view_id))]
    /\ UNCHANGED <<schedVars, session, terminate, viewVars, surfSize, current, gpu, tokens,
                   calls, last, storeFailed, resourceCurrent, bindings, lifeVars>>

\* The rest of that present: resize, bind, layers, unbind.
PresentFinish ==
    /\ session = "running"
    /\ presenting.active
    /\ calls' = calls + 1
    /\ \E layers \in Frames : PresentBody(presenting.view, layers, presenting.size)
    /\ presenting' = NotPresenting
    /\ UNCHANGED <<schedVars, session, viewVars, gpu, tokens, storeFailed, resourceCurrent,
                   lifeVars>>

\* callback::make_current: the render context is made current without surface.
MakeCurrent ==
    /\ session = "running"
    /\ calls < MaxCalls
    /\ calls' = calls + 1
    /\ \E ok \in BOOLEAN :
         /\ last' = Call("make_current", NoView, 0, ok,
                         <<Gl("make_current_surfaceless", <<>>, ok)>>, FALSE)
         /\ current' = IF ok THEN Surfaceless ELSE current
         /\ terminate' = IF ok THEN terminate ELSE SendError("make_current_surfaceless")
    /\ UNCHANGED <<schedVars, session, viewVars, surfSize, gpu, tokens, storeFailed,
                   resourceCurrent, bindings, presenting, lifeVars>>

\* callback::clear_current
ClearCurrent ==
    /\ session = "running"
    /\ calls < MaxCalls
    /\ calls' = calls + 1
    /\ \E ok \in BOOLEAN :
         /\ last' = Call("clear_current", NoView, 0, ok,
                         <<Gl("make_not_current", <<>>, ok)>>, FALSE)
         /\ current' = IF ok THEN NotCurrent ELSE current
         /\ terminate' = IF ok THEN terminate ELSE SendError("make_not_current")
    /\ UNCHANGED <<schedVars, session, viewVars, surfSize, gpu, tokens, storeFailed,
                   resourceCurrent, bindings, presenting, lifeVars>>

\* callback::make_resource_current: the resource context (a second context,
\* sharing with the render context) is made current without surface.
MakeResourceCurrent ==
    /\ session = "running"
    /\ calls < MaxCalls
    /\ calls' = calls + 1
    /\ \E ok \in BOOLEAN :
         /\ last' = Call("make_resource_current", NoView, 0, ok,
                         <<Gl("make_resource_current", <<>>, ok)>>, FALSE)
         /\ resourceCurrent' = IF ok THEN TRUE ELSE resourceCurrent
         /\ terminate' = IF ok THEN terminate ELSE SendError("make_resource_current")
    /\ UNCHANGED <<schedVars, session, viewVars, surfSize, current, gpu, tokens, storeFailed,
                   bindings, presenting, lifeVars>>

\* glGen*: an unused name of the namespace (the least one).
GenName(used) == CHOOSE n \in 1..(Cardinality(used) + 1) :
                    n \notin used /\ \A m \in 1..(n - 1) : m \in used

\* The struct_size test that only rejects an empty structure.
AbiTooSmallZeroOnly(struct_size) == struct_size = 0

\* backing_store.struct_size < size_of::<ffi::FlutterBackingStore>()
AbiTooSmall(struct_size) == struct_size < SizeOfFlutterBackingStore

\* struct_size values the Engine may pass.
StructSizes == 0..(SizeOfFlutterBackingStore + 1)

\* create_backing_store_callback
CreateBackingStore ==
    /\ session = "running"
    /\ calls < MaxCalls
    /\ calls' = calls + 1
    /\ \E struct_size \in StructSizes, bindOk \in BOOLEAN, unbindOk \in BOOLEAN :
         LET framebuffer == GenName(gpu.framebuffers)
             texture == GenName(gpu.textures)
             renderbuffer == GenName(gpu.renderbuffers)
             bind == Gl("make_current_surfaceless", <<>>, bindOk)
             gen == <<Gl("gen_framebuffer", <<framebuffer>>, TRUE),
                      Gl("gen_texture", <<texture>>, TRUE),
                      Gl("gen_renderbuffer", <<renderbuffer>>, TRUE)>>
             unbind == Gl("make_not_current", <<>>, unbindOk)
             allocated == [framebuffers |-> gpu.framebuffers \cup {framebuffer},
                           textures |-> gpu.textures \cup {texture},
                           renderbuffers |-> gpu.renderbuffers \cup {renderbuffer}]
         IN
         IF AbiTooSmall(struct_size)
         THEN /\ last' = Call("create", NoView, struct_size, FALSE, <<>>, FALSE)
              /\ terminate' = SendError("Invalid backing store ABI")
              /\ storeFailed' = TRUE
              /\ UNCHANGED <<current, gpu, tokens, bindings>>
         ELSE IF ~bindOk
         THEN /\ last' = Call("create", NoView, struct_size, FALSE, <<bind>>, FALSE)
              /\ terminate' = SendError("make_current_surfaceless")
              /\ storeFailed' = TRUE
              /\ UNCHANGED <<current, gpu, tokens, bindings>>
         ELSE IF ~unbindOk
         THEN /\ last' = Call("create", NoView, struct_size, FALSE,
                              <<bind>> \o gen \o <<unbind>>, FALSE)
              /\ terminate' = SendError("make_not_current")
              /\ storeFailed' = TRUE
              /\ current' = Surfaceless
              /\ gpu' = allocated
              /\ bindings' = CreateBindings(bindings, framebuffer)
              /\ UNCHANGED tokens
         ELSE /\ last' = Call("create", NoView, struct_size, TRUE,
                              <<bind>> \o gen \o <<unbind>>, TRUE)
              /\ current' = NotCurrent
              /\ gpu' = allocated
              /\ bindings' = CreateBindings(bindings, framebuffer)
              /\ tokens' = tokens \cup {<<framebuffer, texture, renderbuffer>>}
              /\ UNCHANGED <<terminate, storeFailed>>
    /\ UNCHANGED <<schedVars, session, viewVars, surfSize, resourceCurrent, presenting,
                   lifeVars>>

\* The destruction callback that deletes the objects of its token.
DestructedFrees(g, token) ==
    [framebuffers |-> g.framebuffers \ {token[1]},
     textures |-> g.textures \ {token[2]},
     renderbuffers |-> g.renderbuffers \ {token[3]}]

\* The objects left by destruction_callback(_), whose body is empty.
Destructed(g, token) == g

\* The destruction callback the Engine calls with the user data of a
\* framebuffer it was given by create.
DestructionCallback ==
    /\ session = "running"
    /\ calls < MaxCalls
    /\ calls' = calls + 1
    /\ \E token \in tokens : gpu' = Destructed(gpu, token)
    /\ last' = Call("destruction", NoView, 0, TRUE, <<>>, FALSE)
    /\ UNCHANGED <<schedVars, session, terminate, viewVars, surfSize, current, tokens,
                   storeFailed, resourceCurrent, bindings, presenting, lifeVars>>

\* The deletes of collect without the renderbuffer.
DeleteObjectsKeepRenderbuffer(g, token) ==
    [framebuffers |-> g.framebuffers \ {token[1]},
     textures |-> g.textures \ {token[2]},
     renderbuffers |-> g.renderbuffers]

\* DeleteFramebuffers / DeleteTextures / DeleteRenderbuffers of the token's triple.
DeleteObjects(g, token) ==
    [framebuffers |-> g.framebuffers \ {token[1]},
     textures |-> g.textures \ {token[2]},
     renderbuffers |-> g.renderbuffers \ {token[3]}]

\* The collect that deletes although the context could not be made current.
CollectedUnbound(g, token, bindOk) == DeleteObjects(g, token)

\* The objects left by collect: the deletes are reached only when
\* make_current_no_surface succeeded (error_in_callback! returns otherwise).
Collected(g, token, bindOk) == IF bindOk THEN DeleteObjects(g, token) ELSE g

\* collect_backing_store_callback, for a backing store the Engine holds.
CollectBackingStore ==
    /\ session = "running"
    /\ calls < MaxCalls
    /\ calls' = calls + 1
    /\ \E token \in tokens, bindOk \in BOOLEAN, unbindOk \in BOOLEAN :
         LET bind == Gl("make_current_surfaceless", <<>>, bindOk)
             del == <<Gl("delete_framebuffer", <<token[1]>>, TRUE),
                      Gl("delete_texture", <<token[2]>>, TRUE),
                      Gl("delete_renderbuffer", <<token[3]>>, TRUE)>>
             unbind == Gl("make_not_current", <<>>, unbindOk)
         IN
         IF ~bindOk
         THEN /\ last' = Call("collect", NoView, 0, FALSE, <<bind>>, FALSE)
              /\ terminate' = SendError("make_current_surfaceless")
              /\ storeFailed' = TRUE
              /\ gpu' = Collected(gpu, token, bindOk)
              /\ UNCHANGED <<current, tokens, bindings>>
         ELSE /\ gpu' = Collected(gpu, token, bindOk)
              /\ bindings' = UnbindDeleted(bindings, token)
              /\ tokens' = tokens \ {token}
              /\ IF ~unbindOk
                 THEN /\ last' = Call("collect", NoView, 0, FALSE,
                                      <<bind>> \o del \o <<unbind>>, FALSE)
                      /\ terminate' = SendError("make_not_current")
                      /\ storeFailed' = TRUE
                      /\ current' = Surfaceless
                 ELSE /\ last' = Call("collect", NoView, 0, TRUE,
                                      <<bind>> \o del \o <<unbind>>, FALSE)
                      /\ current' = NotCurrent
                      /\ UNCHANGED <<terminate, storeFailed>>
    /\ UNCHANGED <<schedVars, session, viewVars, surfSize, resourceCurrent, presenting,
                   lifeVars>>

Init ==
    /\ now = 0
    /\ chan = <<>>
    /\ posted = 0
    /\ queue = {}
    /\ wake = 0
    /\ rpc = "recv"
    /\ epc = "start"
    /\ timer = Forever
    /\ executed = <<>>
    /\ session = "running"
    /\ terminate = <<>>
    /\ serial = 0
    /\ event = [serial |-> 0, view |-> 0, width |-> InitWidth, height |-> InitHeight,
                kind |-> "configure"]
    /\ ops = <<>>
    /\ viewSize = [v \in Registered |-> <<InitWidth, InitHeight>>]
    /\ shouldResize = [v \in Registered |-> FALSE]
    /\ writing = NotWriting
    /\ surfSize = [v \in Registered |-> <<InitWidth, InitHeight>>]
    /\ current = NotCurrent
    /\ gpu = [framebuffers |-> {}, textures |-> {}, renderbuffers |-> {}]
    /\ tokens = {}
    /\ calls = 0
    /\ last = Call("none", NoView, 0, TRUE, <<>>, FALSE)
    /\ storeFailed = FALSE
    /\ events = <<>>
    /\ resourceCurrent = FALSE
    /\ bindings = Unbound
    /\ presenting = NotPresenting
    /\ rf = "select"
    /\ life = <<"alloc_state", "engine_initialize", "init_state", "engine_run">>
    /\ stateInitialized = TRUE
    /\ exitBy = "none"
    /\ affinity = [thread |-> "none", ret |-> FALSE]

SchedNext ==
    \/ PostTask
    \/ Tick
    \/ ReceiveImmediate
    \/ ReceivePush
    \/ ConsumerStart
    \/ TimerElapsed
    \/ WakeReceived
    \/ DrainRun
    \/ DrainArm

SpecSched == Init /\ [][SchedNext]_vars

\* The presents that accompany the configure handler, a few of them.
ViewPresent == calls < MaxViewCalls /\ PresentView

\* The windowing-protocol dispatch and the presents of the Engine.
ViewNext ==
    \/ Configure
    \/ ViewPresent
    \/ CatchFatalError

SpecView == Init /\ [][ViewNext]_vars

\* The compositor callbacks of the Engine.
GpuNext ==
    \/ CreateBackingStore
    \/ CollectBackingStore
    \/ DestructionCallback
    \/ PresentView
    \/ MakeCurrent
    \/ ClearCurrent
    \/ MakeResourceCurrent
    \/ CatchFatalError

SpecGpu == Init /\ [][GpuNext]_vars

(* ------------------------------ session -------------------------------- *)
\* Threads the Engine calls the task-runner callbacks on.
PlatformThread == "platform"
Threads == {PlatformThread, "raster"}

\* The affinity test that accepts every thread.
RunsTaskOnCurrentThreadAlways(thread) == TRUE

\* state.platform_thread_id == std::thread::current().id()
RunsTaskOnCurrentThread(thread) == thread = PlatformThread

\* runs_task_on_current_thread_callback, called on some thread.
RunsTaskOnCurrentThreadCallback ==
    /\ session = "running"
    /\ \E thread \in Threads :
         /\ affinity' = [thread |-> thread, ret |-> RunsTaskOnCurrentThread(thread)]
         /\ affinity' # affinity
    /\ UNCHANGED <<schedVars, session, terminate, viewVars, gpuVars, startVars, exitBy>>

\* FlutterEngine::init: the state is allocated uninitialized, then the Engine
\* is initialized with its address as user data.  On failure the half-built
\* FlutterEngine is dropped (see DropEngine).
EngineInit ==
    /\ session = "starting"
    /\ rf = "engine_init"
    /\ \E code \in EngineResults :
         IF IntoFlutterEngineResult(code)
         THEN /\ life' = life \o <<"alloc_state", "engine_initialize">>
              /\ rf' = "connect"
              /\ UNCHANGED session
         ELSE /\ life' = life \o <<"alloc_state">>
              /\ session' = "failed"
              /\ UNCHANGED rf
    /\ UNCHANGED <<schedVars, terminate, viewVars, gpuVars, stateInitialized, exitBy, affinity>>

\* The fallible constructions between FlutterEngine::init and init_state.
StartupSteps == <<"connect", "opengl_init", "wayland_new", "compositor_init">>
\* The start-up that goes from the last construction to engine.run().
StartupNextSkipInitState(step) ==
    IF \E i \in 1..(Len(StartupSteps) - 1) : StartupSteps[i] = step
    THEN StartupSteps[(CHOOSE i \in 1..(Len(StartupSteps) - 1) : StartupSteps[i] = step) + 1]
    ELSE "engine_run"

StartupNext(step) ==
    IF \E i \in 1..(Len(StartupSteps) - 1) : StartupSteps[i] = step
    THEN StartupSteps[(CHOOSE i \in 1..(Len(StartupSteps) - 1) : StartupSteps[i] = step) + 1]
    ELSE "init_state"

\* Connection::connect_to_env()?, OpenGLState::init()?, WaylandClient::new()?,
\* Compositor::init()?
Startup ==
    /\ session = "starting"
    /\ \E i \in 1..Len(StartupSteps) : StartupSteps[i] = rf
    /\ \E ok \in BOOLEAN :
         IF ok
         THEN rf' = StartupNext(rf) /\ UNCHANGED session
         ELSE session' = "failed" /\ UNCHANGED rf
    /\ UNCHANGED <<schedVars, terminate, viewVars, gpuVars, life, stateInitialized, exitBy,
                   affinity>>

\* engine.init_state(FlutterEngineState { .. })
InitState ==
    /\ session = "starting"
    /\ rf = "init_state"
    /\ life' = Append(life, "init_state")
    /\ stateInitialized' = TRUE
    /\ rf' = "engine_run"
    /\ UNCHANGED <<schedVars, session, terminate, viewVars, gpuVars, exitBy, affinity>>

\* engine.run()?: on success run_flutter enters its select!.
EngineRun ==
    /\ session = "starting"
    /\ rf = "engine_run"
    /\ \E code \in EngineResults :
         IF IntoFlutterEngineResult(code)
         THEN /\ life' = Append(life, "engine_run")
              /\ rf' = "select"
              /\ session' = "running"
         ELSE /\ session' = "failed"
              /\ UNCHANGED <<life, rf>>
    /\ UNCHANGED <<schedVars, terminate, viewVars, gpuVars, stateInitialized, exitBy, affinity>>

\* wayland_client.run() returns Err (its Ok type is Infallible).
WaylandRunFailed ==
    /\ session = "running"
    /\ session' = "failed"
    /\ exitBy' = "wayland"
    /\ UNCHANGED <<schedVars, terminate, viewVars, gpuVars, startVars, affinity>>

\* The drop that frees the state before the Engine is deinitialized.
DropStepsFreeFirst(initialized) ==
    (IF initialized THEN <<"drop_state_contents">> ELSE <<>>)
    \o <<"free_state", "engine_deinitialize">>

\* Drop for FlutterEngine: FlutterEngineDeinitialize, Box::from_raw, and
\* drop(state.assume_init()) when state_initialized, else the Box of
\* MaybeUninit is freed without dropping contents.
DropSteps(initialized) ==
    <<"engine_deinitialize">>
    \o (IF initialized THEN <<"drop_state_contents">> ELSE <<>>)
    \o <<"free_state">>

\* run_flutter (or FlutterEngine::init) returns and the FlutterEngine is dropped.
DropEngine ==
    /\ session \in {"failed", "ok"}
    /\ rf # "returned"
    /\ life # <<>>
    /\ life' = life \o DropSteps(stateInitialized)
    /\ rf' = "returned"
    /\ UNCHANGED <<schedVars, session, terminate, viewVars, gpuVars, stateInitialized, exitBy,
                   affinity>>

\* The session from the entry of run_flutter, with few tasks and configures.
SessPostTask == posted < MaxSessionTasks /\ PostTask
SessTick == now < MaxSessionTime /\ Tick
SessConfigure == serial < MaxSessionConfigures /\ Configure

\* State at the entry of run_flutter.
SessInit ==
    /\ now = 0
    /\ chan = <<>>
    /\ posted = 0
    /\ queue = {}
    /\ wake = 0
    /\ rpc = "recv"
    /\ epc = "start"
    /\ timer = Forever
    /\ executed = <<>>
    /\ session = "starting"
    /\ terminate = <<>>
    /\ serial = 0
    /\ event = [serial |-> 0, view |-> 0, width |-> InitWidth, height |-> InitHeight,
                kind |-> "configure"]
    /\ ops = <<>>
    /\ viewSize = [v \in Registered |-> <<InitWidth, InitHeight>>]
    /\ shouldResize = [v \in Registered |-> FALSE]
    /\ writing = NotWriting
    /\ surfSize = [v \in Registered |-> <<InitWidth, InitHeight>>]
    /\ current = NotCurrent
    /\ gpu = [framebuffers |-> {}, textures |-> {}, renderbuffers |-> {}]
    /\ tokens = {}
    /\ calls = 0
    /\ last = Call("none", NoView, 0, TRUE, <<>>, FALSE)
    /\ storeFailed = FALSE
    /\ events = <<>>
    /\ resourceCurrent = FALSE
    /\ bindings = Unbound
    /\ presenting = NotPresenting
    /\ rf = "engine_init"
    /\ life = <<>>
    /\ stateInitialized = FALSE
    /\ exitBy = "none"
    /\ affinity = [thread |-> "none", ret |-> FALSE]

SessNext ==
    \/ EngineInit
    \/ Startup
    \/ InitState
    \/ EngineRun
    \/ SessPostTask
    \/ SessTick
    \/ ReceiveImmediate
    \/ ReceivePush
    \/ ConsumerStart
    \/ TimerElapsed
    \/ WakeReceived
    \/ DrainRun
    \/ DrainArm
    \/ SessConfigure
    \/ WaylandRunFailed
    \/ CatchFatalError
    \/ DropEngine

SpecSession == SessInit /\ [][SessNext]_vars

\* Presents on the raster thread next to the listener's writes under the lock
\* of the size on the platform thread.
LockNext ==
    \/ ListenerWriteWidth
    \/ ListenerWriteHeight
    \/ PresentReadSize
    \/ PresentFinish

SpecLock == Init /\ [][LockNext]_vars

\* The event listener with the events and identifiers a layer surface can
\* hand to it.
ListenerNext ==
    \/ ListenerEvent
    \/ CatchFatalError

SpecListener == Init /\ [][ListenerNext]_vars

\* Presents on the raster thread next to the configure handler on the
\* platform thread.
ResizeNext ==
    \/ SessConfigure
    \/ PresentReadSize
    \/ PresentFinish
    \/ CatchFatalError

SpecResize == Init /\ [][ResizeNext]_vars

\* The scheduler polled fairly: the executor polls both futures of
\* run_task_runner whenever they can make progress, and the clock advances.
\* The submissions of a burst.
LivePostTask == posted < MaxLiveTasks /\ PostTask

LiveNext ==
    \/ LivePostTask
    \/ SessTick
    \/ ReceiveImmediate
    \/ ReceivePush
    \/ ConsumerStart
    \/ TimerElapsed
    \/ WakeReceived
    \/ DrainRun
    \/ DrainArm

SpecLive ==
    /\ Init
    /\ [][LiveNext]_vars
    /\ WF_vars(SessTick)
    /\ WF_vars(ReceiveImmediate)
    /\ WF_vars(ReceivePush)
    /\ WF_vars(ConsumerStart)
    /\ WF_vars(TimerElapsed)
    /\ WF_vars(WakeReceived)
    /\ WF_vars(DrainRun)
    /\ WF_vars(DrainArm)

\* The task-runner callbacks of the Engine and the scheduler they feed.
PostNext ==
    \/ SessPostTask
    \/ SessTick
    \/ RunsTaskOnCurrentThreadCallback
    \/ ReceiveImmediate
    \/ ReceivePush
    \/ ConsumerStart
    \/ TimerElapsed
    \/ WakeReceived
    \/ DrainRun
    \/ DrainArm

SpecPost == Init /\ [][PostNext]_vars

TypeOK ==
    /\ now \in Times
    /\ wake \in 0..(WakeBuffer + 1)
    /\ rpc \in {"recv", "send"}
    /\ epc \in {"start", "drain", "sleep"}
    /\ session \in {"starting", "running", "failed", "ok"}
(* ------------------------- scheduler claims ---------------------------- *)

\* The FlutterEngineRunTask call made by the step, when the step makes one.
RunsATask == Len(executed') = Len(executed) + 1
TaskRun == executed'[Len(executed')]

\* C1 (as stated): tasks are handed to the Engine in nondecreasing order of
\* target timestamp: a task that was already waiting when another task was run,
\* on the immediate path or from the queue, and that is run after it, does not
\* have a strictly earlier target.
C1_RunOrderAllPaths ==
    \A i, j \in 1..Len(executed) :
        (i < j /\ executed[j].id \in executed[i].waiting)
        => executed[j].target >= executed[i].target

\* C1 (amended): tasks drained from the priority queue are handed to the Engine
\* in nondecreasing order of target timestamp: a task that was waiting when
\* another task was drained from the queue, and that is run after it, does not
\* have a strictly earlier target.
C1_RunOrderDrain ==
    \A i, j \in 1..Len(executed) :
        (i < j /\ executed[i].path = "queue" /\ executed[j].id \in executed[i].waiting)
        => executed[j].target >= executed[i].target

\* Two tasks waiting together were drained in the reverse of their submission
\* order, the one with the earlier target first.
C1_Witness ==
    \E i, j \in 1..Len(executed) :
        /\ i < j
        /\ executed[i].path = "queue" /\ executed[j].path = "queue"
        /\ executed[j].id \in executed[i].waiting
        /\ executed[i].target < executed[j].target
        /\ executed[i].id > executed[j].id

\* C2: the receive step runs a task whose target is at or before the clock in
\* that same step without pushing it, and pushes a task whose target is in the
\* future without running it.
C2_ReceiveStep ==
    [][(chan # <<>> /\ chan' = Tail(chan)) =>
         LET task == Head(chan) IN
         IF task.target <= now
         THEN /\ RunsATask
              /\ TaskRun.id = task.id
              /\ TaskRun.path = "immediate"
              /\ queue' = queue
              /\ task \notin queue'
         ELSE /\ executed' = executed
              /\ queue' = queue \cup {task}]_vars

\* A task was run on the immediate path while another one waits in the queue.
C2_Witness ==
    /\ queue # {}
    /\ \E i \in 1..Len(executed) :
         executed[i].path = "immediate" /\ executed[i].target <= executed[i].at

\* C3: a consumer asleep on a timer later than the earliest queued target (or
\* asleep forever with a task queued) always has a wake notification pending.
C3_WakeNotLost ==
    (epc = "sleep" /\ queue # {}
       /\ (timer.forever \/ \E q \in queue : q.target < timer.at))
    => wake > 0

\* The consumer sleeps on a timer for D and a task with target d < D is queued.
C3_Witness ==
    /\ epc = "sleep"
    /\ ~timer.forever
    /\ \E q \in queue : q.target < timer.at
    /\ wake > 0

\* C4: no task is handed to the Engine twice, and a task handed to the Engine
\* is neither in the priority queue nor still in the channel.
C4_AtMostOnce ==
    /\ \A i, j \in 1..Len(executed) : executed[i].id = executed[j].id => i = j
    /\ \A i \in 1..Len(executed) :
         /\ \A q \in queue : q.id # executed[i].id
         /\ \A k \in 1..Len(chan) : chan[k].id # executed[i].id

\* Tasks were run on both paths.
C4_Witness ==
    /\ \E i \in 1..Len(executed) : executed[i].path = "immediate"
    /\ \E i \in 1..Len(executed) : executed[i].path = "queue"
(* -------------------------- configure claims --------------------------- *)

\* The step delivers a configure event; NewOps are the effects it has.
ConfigureStep == serial' = serial + 1
NewOps == SubSeq(ops', Len(ops) + 1, Len(ops'))
Positions(seq, op) == {i \in 1..Len(seq) : seq[i].op = op}

\* C5: a configure event with width = 0 or height = 0 sends no window-metrics
\* update and changes neither the stored size nor the should-resize flag.
C5_ZeroConfigureIgnored ==
    [][(ConfigureStep /\ (event'.width = 0 \/ event'.height = 0)) =>
         /\ Positions(NewOps, "metrics") = {}
         /\ ops' = ops
         /\ viewSize' = viewSize
         /\ shouldResize' = shouldResize]_vars

\* A configure with exactly one zero dimension arrived after a resize to 800x600.
C5_Witness ==
    /\ serial = 2
    /\ event.width = 0 /\ event.height # 0
    /\ viewSize[0] = <<800, 600>>
    /\ shouldResize[0]

\* C6: a configure event with positive width and height whose metrics update
\* succeeds has exactly one window-metrics update and exactly one write of the
\* stored size, the update first, and both before the ack_configure.
C6_MetricsStoreThenAck ==
    [][(ConfigureStep /\ event'.width > 0 /\ event'.height > 0) =>
         /\ Cardinality(Positions(NewOps, "metrics")) = 1
         /\ (\A i \in Positions(NewOps, "metrics") : NewOps[i].result = "kSuccess") =>
              /\ Cardinality(Positions(NewOps, "store")) = 1
              /\ \A i \in Positions(NewOps, "metrics"), j \in Positions(NewOps, "store"),
                    k \in Positions(NewOps, "ack") : i < j /\ j < k]_vars

\* C7: when the Engine rejects the window-metrics update of a configure, one
\* error is sent on the fatal-error channel and the stored size and flag stay
\* as they were; the stored size is written only after a metrics update of
\* the same configure that the Engine accepted.
C7_FailedMetricsKeepsSize ==
    [][ConfigureStep =>
         /\ (\E i \in Positions(NewOps, "metrics") : NewOps[i].result # "kSuccess") =>
              /\ terminate' = Append(terminate, "engine")
              /\ Positions(NewOps, "store") = {}
              /\ viewSize' = viewSize
              /\ shouldResize' = shouldResize
         /\ \A j \in Positions(NewOps, "store") :
              \E i \in Positions(NewOps, "metrics") :
                  /\ i < j
                  /\ NewOps[i].result = "kSuccess"
                  /\ NewOps[i].serial = NewOps[j].serial
         /\ (viewSize' # viewSize) => Positions(NewOps, "store") # {}]_vars

\* The Engine rejected the metrics of a second configure after a first one
\* had resized the view to 800x600.
C7_Witness ==
    /\ serial = 2
    /\ ops # <<>>
    /\ ops[Len(ops)].op = "metrics"
    /\ ops[Len(ops)].result # "kSuccess"
    /\ ops[Len(ops)].width = 600
    /\ viewSize[0] = <<800, 600>>
    /\ terminate = <<"engine">>

(* -------------------------- compositor claims -------------------------- *)

CallbackStep(name) == calls' = calls + 1 /\ last'.call = name

\* C8: present_view for a view identifier that is not registered returns
\* false, makes no GPU call (no resize, bind, draw or swap), leaves the context
\* and the surfaces as they were and sends nothing on the fatal-error channel.
C8_PresentUnknownView ==
    [][(CallbackStep("present") /\ last'.view \notin Registered) =>
         /\ last'.ret = FALSE
         /\ last'.gl = <<>>
         /\ current' = current
         /\ surfSize' = surfSize
         /\ terminate' = terminate]_vars

\* View 5 was presented while only view 0 is registered.
C8_Witness ==
    /\ Registered = {0}
    /\ last.call = "present"
    /\ last.view = 5
    /\ last.ret = FALSE

\* The GL names held by the tokens the Engine holds.
TokenObjects ==
    [framebuffers |-> {t[1] : t \in tokens},
     textures |-> {t[2] : t \in tokens},
     renderbuffers |-> {t[3] : t \in tokens}]

\* C9: as long as every create_backing_store and collect_backing_store call
\* has returned true, the allocated framebuffers, textures and renderbuffers
\* are exactly those of the tokens created and not yet collected.
C9_ObjectsMatchTokens ==
    ~storeFailed => gpu = TokenObjects

\* A create followed at once by the collect of its token: nothing is left.
C9_Witness ==
    /\ calls = 2
    /\ last.call = "collect"
    /\ last.ret
    /\ ~storeFailed
    /\ tokens = {}
    /\ gpu = [framebuffers |-> {}, textures |-> {}, renderbuffers |-> {}]

\* C10: create_backing_store with a struct_size below the size of
\* FlutterBackingStore sends the ABI error on the fatal-error channel and
\* returns false without a GPU call, an allocation or a write to the output.
C10_SmallStructRejected ==
    [][(CallbackStep("create") /\ last'.struct_size < SizeOfFlutterBackingStore) =>
         /\ last'.ret = FALSE
         /\ last'.gl = <<>>
         /\ ~last'.written
         /\ gpu' = gpu
         /\ tokens' = tokens
         /\ current' = current
         /\ terminate' = Append(terminate, "Invalid backing store ABI")]_vars

\* A create with a nonzero struct_size one below the expected size was
\* rejected while a backing store of an earlier create is alive.
C10_Witness ==
    /\ last.call = "create"
    /\ last.struct_size = SizeOfFlutterBackingStore - 1
    /\ last.struct_size > 0
    /\ ~last.ret
    /\ tokens # {}
    /\ gpu = TokenObjects
(* ------------------------- scenario claims ----------------------------- *)

\* The run of the task with the given handle, target (in units of 100 ns) and
\* path, if the log has one.
RunsOf(id, target, path) ==
    {i \in 1..Len(executed) :
        executed[i].id = id /\ executed[i].target = target /\ executed[i].path = path}

NonZeroEvents == {i \in 1..Len(events) : events[i].width # 0 /\ events[i].height # 0}
LastIn(S) == CHOOSE i \in S : \A j \in S : j <= i

\* C12: as long as every metrics update has succeeded, the number of
\* window-metrics updates sent to the Engine equals the number of configure
\* events with both dimensions nonzero, and the stored size of view 0 is that
\* of the last such event, or the initial size when there was none.
C12_MetricsCountAndSize ==
    (\A i \in Positions(ops, "metrics") : ops[i].result = "kSuccess") =>
        /\ Cardinality(Positions(ops, "metrics")) = Cardinality(NonZeroEvents)
        /\ viewSize[0] = IF NonZeroEvents = {}
                         THEN <<InitWidth, InitHeight>>
                         ELSE <<events[LastIn(NonZeroEvents)].width,
                                events[LastIn(NonZeroEvents)].height>>

\* Configure (0, 0) then (800, 600): one metrics update, stored size 800x600.
C12_Witness ==
    /\ Len(events) = 2
    /\ events[1].width = 0 /\ events[1].height = 0
    /\ events[2].width = 800 /\ events[2].height = 600
    /\ Cardinality(Positions(ops, "metrics")) = 1
    /\ viewSize[0] = <<800, 600>>
\* C14: every task execution for which the Engine returned a failure, on the
\* immediate path or from the queue, has been reported: the session has
\* failed or an error is on the fatal-error channel.
C14_TaskFailureReported ==
    \A i \in 1..Len(executed) :
        ~executed[i].ok => session = "failed" \/ terminate # <<>>
(* --------------------- binding failures (callbacks) --------------------- *)
BindingOps == {"make_current", "make_current_surfaceless", "make_not_current",
               "make_resource_current", "swap_buffers"}
FailedBindings(gl) == {i \in 1..Len(gl) : gl[i].op \in BindingOps /\ ~gl[i].ok}

\* C15: in every renderer or compositor callback, a failed GPU binding call
\* (context bind or unbind, resource context bind, buffer swap) is the last
\* GPU call of the callback, the callback returns false and exactly one error
\* is added to the fatal-error channel; a callback all of whose binding calls
\* succeeded adds nothing to that channel.
C15_BindingFailureSurfaced ==
    [][calls' = calls + 1 =>
        LET gl == last'.gl IN
        /\ FailedBindings(gl) # {} =>
              /\ FailedBindings(gl) = {Len(gl)}
              /\ last'.ret = FALSE
              /\ Len(terminate') = Len(terminate) + 1
        /\ (gl # <<>> /\ FailedBindings(gl) = {}) => terminate' = terminate]_vars

\* A present whose buffer swap failed: it returned false and one error is on
\* the fatal-error channel.
C15_Witness ==
    /\ last.call = "present"
    /\ last.gl # <<>>
    /\ last.gl[Len(last.gl)].op = "swap_buffers"
    /\ ~last.gl[Len(last.gl)].ok
    /\ ~last.ret
    /\ Len(terminate) = 1

SurfaceOps == {"resize", "make_current", "swap_buffers"}

\* C16: the render context has a single binding, and every present of view V
\* resizes, binds and swaps V's own window surface; the context is left bound
\* to no surface other than V's.
C16_PresentUsesOwnSurface ==
    [][CallbackStep("present") =>
        /\ \A i \in 1..Len(last'.gl) :
              last'.gl[i].op \in SurfaceOps => last'.gl[i].args[1] = last'.view
        /\ (current'.kind = "surface" /\ current' # current) => current'.view = last'.view
        /\ current' \in {NotCurrent, Surfaceless} \cup {OnSurface(v) : v \in Registered}]_vars

\* A present of view 0 that bound and swapped a surface and succeeded.
C16_Witness ==
    /\ last.call = "present"
    /\ last.view = 0
    /\ last.ret
    /\ \E i \in 1..Len(last.gl) : last.gl[i].op = "swap_buffers" /\ last.gl[i].args[1] = 0

DeleteOps == {"delete_framebuffer", "delete_texture", "delete_renderbuffer"}

\* C20: collect deletes GPU objects only between a successful surfaceless bind
\* of the render context and its unbind; when the bind fails nothing is
\* deleted, no token is freed, one error is reported and false is returned.
C20_CollectOnlyWhileCurrent ==
    [][CallbackStep("collect") =>
        LET gl == last'.gl
            dels == {i \in 1..Len(gl) : gl[i].op \in DeleteOps}
        IN
        /\ gl[1].op = "make_current_surfaceless"
        /\ \A i \in dels :
              /\ gl[1].ok
              /\ \A j \in 1..(i - 1) : gl[j].op # "make_not_current"
        /\ gl[1].ok => {gl[i].op : i \in dels} = DeleteOps
        /\ ~gl[1].ok =>
              /\ dels = {}
              /\ gpu' = gpu
              /\ tokens' = tokens
              /\ last'.ret = FALSE
              /\ Len(terminate') = Len(terminate) + 1]_vars

\* A collect whose bind failed, with the token's objects still allocated.
C20_Witness ==
    /\ last.call = "collect"
    /\ ~last.gl[1].ok
    /\ tokens # {}
    /\ \A t \in tokens : t[1] \in gpu.framebuffers /\ t[2] \in gpu.textures
                         /\ t[3] \in gpu.renderbuffers
(* --------------------------- session claims ----------------------------- *)
\* C13: catch_fatal_errors ends run_flutter with a failure both for a received
\* error and for a channel closed without message; the step in which the event
\* loop receives from the fatal-error channel leaves the session failed, and
\* once that has happened the session is never running again.
C13_FatalEndsSession ==
    [][/\ \A item \in {None, SomeErr} : CatchFatalErrors(item) = "failed"
       /\ (exitBy' = "fatal" /\ exitBy # "fatal") => (terminate # <<>> /\ session' = "failed")
       /\ exitBy = "fatal" => (session' = "failed" /\ exitBy' = "fatal")]_vars

\* The event loop received an error and run_flutter returned with a failure.
C13_Witness ==
    /\ exitBy = "fatal"
    /\ session = "failed"
    /\ terminate # <<>>
    /\ rf = "returned"

\* C17: a post_task step only appends the task to the channel, also when its
\* target is already due: no task is run and the queue is untouched; every task
\* run is taken by the scheduler from the channel head or from the queue; and
\* runs_task_on_current_thread answers true exactly on the platform thread.
C17_PostTaskDefers ==
    [][/\ posted' = posted + 1 =>
             /\ executed' = executed
             /\ queue' = queue
             /\ Len(chan') = Len(chan) + 1
             /\ SubSeq(chan', 1, Len(chan)) = chan
             /\ chan'[Len(chan')].id = posted'
       /\ RunsATask =>
             /\ posted' = posted
             /\ \/ (chan # <<>> /\ Head(chan).id = TaskRun.id /\ chan' = Tail(chan))
                \/ (\E q \in queue : q.id = TaskRun.id /\ q \notin queue')
       /\ affinity' # affinity =>
             (affinity'.ret <=> affinity'.thread = PlatformThread)]_vars

\* A task whose target was due when posted waits in the channel, nothing has
\* been run, and the affinity test was answered false on the raster thread.
C17_Witness ==
    /\ chan # <<>>
    /\ chan[1].target = 0
    /\ executed = <<>>
    /\ affinity.thread = "raster"
    /\ ~affinity.ret

\* C18 (as stated): while an error sent on the fatal-error channel is waiting,
\* the scheduler runs no task and no configure is forwarded to the Engine.
C18_NoWorkAfterErrorSent ==
    [][terminate # <<>> =>
          (executed' = executed /\ Positions(ops', "metrics") = Positions(ops, "metrics"))]_vars

\* C18 (amended): once the event loop has received the error from the
\* fatal-error channel, the scheduler runs no further task and no further
\* configure event is forwarded to the Engine.
C18_NoWorkAfterErrorReceived ==
    [][exitBy = "fatal" =>
          (executed' = executed /\ ops' = ops /\ serial' = serial /\ chan' = chan
           /\ queue' = queue)]_vars

\* The error was received and run_flutter returned while a task was still
\* waiting in the channel or in the queue.
C18_Witness ==
    /\ exitBy = "fatal"
    /\ rf = "returned"
    /\ (chan # <<>> \/ queue # {})
    /\ executed # <<>>

LifeAt(step) == {i \in 1..Len(life) : life[i] = step}

\* C19: the state allocation is freed at most once, only after a
\* FlutterEngineDeinitialize that follows the Engine's initialization, and it
\* is freed on every return of run_flutter; its contents are dropped exactly
\* when init_state had been called, after the deinitialization.
C19_StateFreedAfterDeinitialize ==
    /\ Cardinality(LifeAt("free_state")) <= 1
    /\ \A f \in LifeAt("free_state") :
          /\ \E d \in LifeAt("engine_deinitialize") : d < f
          /\ \A e \in LifeAt("engine_initialize") :
                \E d \in LifeAt("engine_deinitialize") : e < d /\ d < f
    /\ rf = "returned" => LifeAt("free_state") = {Len(life)}
    /\ LifeAt("drop_state_contents") # {} <=> (LifeAt("init_state") # {} /\ rf = "returned")
    /\ \A c \in LifeAt("drop_state_contents") :
          /\ \E i \in LifeAt("init_state") : i < c
          /\ \E d \in LifeAt("engine_deinitialize") : d < c

\* A start-up failure after the Engine was initialized: the Engine is
\* deinitialized, then the uninitialized state is freed without a content drop.
C19_Witness ==
    /\ rf = "returned"
    /\ life = <<"alloc_state", "engine_initialize", "engine_deinitialize", "free_state">>
(* ----------------------- context and frame claims ----------------------- *)
\* C21: a collect that returns true leaves the render context as it found it:
\* current or not on the calling thread, and on the same surface.
C21_CollectRestoresContext ==
    [][(CallbackStep("collect") /\ last'.ret) => current' = current]_vars
\* A present step for a registered view.
PresentStep == CallbackStep("present") /\ last'.view \in Registered
IsBackingStore(layer) == layer.type = "backing_store"
IsDraw(g) == g.op = "draw"
IsSwap(g) == g.op = "swap_buffers"
Draws(gl) == SelectSeq(gl, IsDraw)
Swaps(gl) == SelectSeq(gl, IsSwap)
BackingStores(layers) == SelectSeq(layers, IsBackingStore)

C30_BindingsRestored ==
    [][PresentStep =>
        /\ \A i \in 1..Len(last'.drawn) : last'.drawn[i].after = last'.drawn[i].before
        /\ (\A i \in 1..Len(last'.gl) : last'.gl[i].op = "swap_buffers" => last'.gl[i].ok)
              => bindings' = bindings]_vars

\* A layer was drawn, swapped and restored while a framebuffer other than the
\* default one and a texture other than the layer's own were bound before it.
C30_Witness ==
    /\ last.call = "present"
    /\ \E i \in 1..Len(last.drawn) :
          /\ last.drawn[i].before.draw_framebuffer # 0
          /\ last.drawn[i].before.texture_2d # last.layers[last.drawn[i].layer].token[2]
          /\ last.drawn[i].after = last.drawn[i].before
\* C28 (as stated): at the moment a present binds the render context, the
\* dimensions of the view's surface equal the stored size of the view.
C28_SurfaceMatchesStoredAtBind ==
    [][PresentStep => surfSize'[last'.view] = viewSize[last'.view]]_vars

\* C28 (amended): a present resizes the surface, before it binds, to the size
\* it read from the view's stored size at the start of the call, so that at
\* the bind the surface has that size, whatever it was before; it equals the
\* stored size when no configure was handled since the read.
C28_SurfaceMatchesReadAtBind ==
    [][PresentStep =>
        LET v == last'.view
            read == IF presenting.active THEN presenting.size ELSE viewSize[v]
        IN
        /\ last'.gl[1] = Gl("resize", <<v, read[1], read[2]>>, TRUE)
        /\ last'.gl[2].op = "make_current"
        /\ surfSize'[v] = read
        /\ (~presenting.active \/ presenting.size = viewSize[v])
              => surfSize'[v] = viewSize[v]]_vars

\* After a configure to 800x600, a present has resized the surface of view 0
\* to 800x600 (from the 1600x900 it was created with) and gone on to the bind.
C28_Witness ==
    /\ last.call = "present"
    /\ Len(last.gl) >= 2
    /\ viewSize[0] = <<800, 600>>
    /\ surfSize[0] = <<800, 600>>
    /\ ~presenting.active
(* ------------------------- scheduler claims (2) ------------------------- *)
\* C23: under fair polling and an advancing clock, while the session runs,
\* again and again the queue holds no task whose target the clock has reached;
\* a task leaves the queue only by being run.  So every queued task is run
\* once its target is reached, also one that was pushed without notification.
C23_DueTasksEventuallyRun ==
    /\ []<>(session # "running" \/ \A q \in queue : q.target > now)
    /\ [][\A q \in queue \ queue' : RunsATask /\ TaskRun.id = q.id /\ TaskRun.path = "queue"]_vars

\* Task 2 (target 2) was pushed while task 1 (target 1) was queued, hence
\* without notification, and both have been run from the queue.
C23_Witness ==
    /\ Len(executed) = 2
    /\ executed[1].id = 1 /\ executed[1].target = 1 /\ executed[1].path = "queue"
    /\ 2 \in executed[1].waiting
    /\ executed[2].id = 2 /\ executed[2].target = 2 /\ executed[2].path = "queue"

\* C24: every task was handed to the Engine at a clock value, read for that
\* decision, that is not less than the task's target.
C24_NeverEarly ==
    \A i \in 1..Len(executed) : executed[i].at >= executed[i].target

\* One task was run on the immediate path after its target had passed, another
\* from the queue exactly at its target.
C24_Witness ==
    \E i, j \in 1..Len(executed) :
        /\ executed[i].path = "immediate" /\ executed[i].at > executed[i].target
        /\ executed[j].path = "queue" /\ executed[j].at = executed[j].target
           /\ executed[j].target > 0

\* C25: when the consumer goes to sleep no queued task is due at the clock
\* value just read, and the timer is armed for the earliest queued target
\* (delay = target - now), or never elapses when the queue is empty; a sleep on
\* such a timer is ended only by a notification.
C25_SleepTimer ==
    [][/\ (epc = "drain" /\ epc' = "sleep") =>
             /\ \A q \in queue : q.target > now
             /\ queue = {} => timer' = Forever
             /\ queue # {} =>
                   /\ ~timer'.forever
                   /\ \E q \in queue : (\A r \in queue : q.target <= r.target)
                                       /\ timer'.at - now = q.target - now
       /\ (epc = "sleep" /\ timer.forever /\ epc' # "sleep") =>
             (wake > 0 /\ wake' = wake - 1)]_vars

\* The consumer sleeps on a timer armed for a queued task two units ahead.
C25_Witness ==
    /\ epc = "sleep"
    /\ ~timer.forever
    /\ queue # {}
    /\ \E q \in queue : q.target = timer.at /\ q.target = now + 2

\* C26: the step that pushes a task sends a notification exactly when the
\* queue was empty or the task's target is strictly less than every target
\* queued before.
C26_WakeIffEarliest ==
    [][\A pushed \in queue' \ queue :
          /\ wake' \in {wake, wake + 1}
          /\ wake' = wake + 1 <=>
                (queue = {} \/ \A q \in queue : pushed.target < q.target)]_vars

\* Two tasks with the same target are queued and one notification was sent.
C26_Witness ==
    /\ epc = "start"
    /\ Cardinality(queue) = 2
    /\ \A q \in queue : q.target = 2
    /\ wake = 1

\* C27: every step that changes the queue is one whole access of the receive
\* step (a push of the channel head, made while the consumer is not inside its
\* drain loop) or of the consumer (a pop of a task it runs, inside the drain
\* loop and with the receive step at rest); a receive step suspended in its
\* send has completed its push; a post_task step, also during a drain, only
\* sends on the channel.
C27_QueueAccessExclusive ==
    [][/\ queue' # queue =>
             \/ /\ chan # <<>>
                /\ epc # "drain" /\ epc' = epc
                /\ rpc = "recv"
                /\ chan' = Tail(chan)
                /\ queue' = queue \cup {Head(chan)}
                /\ executed' = executed
             \/ /\ epc = "drain" /\ epc' = "drain"
                /\ rpc' = rpc /\ chan' = chan /\ wake' = wake
                /\ RunsATask
                /\ \E q \in queue : q.id = TaskRun.id /\ queue' = queue \ {q}
       /\ posted' = posted + 1 =>
             (queue' = queue /\ Len(chan') = Len(chan) + 1 /\ epc' = epc /\ rpc' = rpc)
       /\ (rpc' = "send" /\ rpc = "recv") => queue' # queue]_vars

\* The consumer is inside its drain loop, has run a queued task, another task
\* is still queued, and a posted task waits in the channel.
C27_Witness ==
    /\ epc = "drain"
    /\ executed # <<>>
    /\ executed[Len(executed)].path = "queue"
    /\ queue # {}
    /\ chan # <<>>
(* --------------------------- frame claims (2) --------------------------- *)
\* Positions of the draws and of the swaps in a sequence of GPU calls, in order.
RECURSIVE IndexesOf(_, _, _)
IndexesOf(gl, op, i) ==
    IF i > Len(gl) THEN <<>>
    ELSE (IF gl[i].op = op THEN <<i>> ELSE <<>>) \o IndexesOf(gl, op, i + 1)

\* C31: in a present that returns true the layers are processed in the order of
\* the frame: the k-th draw uses the texture of the k-th backing-store layer,
\* the number of swaps on the view's surface equals the number of backing-store
\* layers, and the swap of a layer comes after the draw of that layer and
\* before the draw of the next one.
C31_SwapPerLayerInOrder ==
    [][(PresentStep /\ last'.ret) =>
        LET gl == last'.gl
            stores == BackingStores(last'.layers)
            d == IndexesOf(gl, "draw", 1)
            w == IndexesOf(gl, "swap_buffers", 1)
        IN
        /\ Len(w) = Len(stores)
        /\ Len(d) = Len(stores)
        /\ \A k \in 1..Len(stores) :
              /\ gl[d[k]].args = <<stores[k].token[2]>>
              /\ gl[w[k]] = Gl("swap_buffers", <<last'.view>>, TRUE)
              /\ d[k] < w[k]
              /\ k < Len(stores) => w[k] < d[k + 1]]_vars

\* A successful present of two backing-store layers with different textures,
\* the second of them drawn after the swap of the first.
C31_Witness ==
    /\ last.call = "present"
    /\ last.ret
    /\ Len(BackingStores(last.layers)) = 2
    /\ last.layers[1].token # last.layers[2].token
    /\ Len(IndexesOf(last.gl, "swap_buffers", 1)) = 2
    /\ IndexesOf(last.gl, "swap_buffers", 1)[1] < IndexesOf(last.gl, "draw", 1)[2]
(* --------------------------- event loop claims ------------------------- *)
\* C32: the event loop ends with the first of its three sources that
\* completes (windowing-protocol dispatch, fatal-error channel, scheduler): the
\* step that completes a source ends the running session in that same step,
\* with an error when the dispatch or the scheduler failed or an error was
\* received, and from then on no source makes progress: no task is received,
\* queued or run, no timer is armed, no configure is handled, and no second
\* source completes.
C32_FirstSourceEndsLoop ==
    [][/\ exitBy' # exitBy =>
             /\ exitBy = "none"
             /\ session = "running"
             /\ exitBy' \in {"wayland", "fatal", "task_runner"}
             /\ session' = "failed"
       /\ (session = "running" /\ session' # "running") => exitBy' # "none"
       /\ exitBy # "none" =>
             /\ session' = session
             /\ exitBy' = exitBy
             /\ UNCHANGED <<chan, queue, wake, rpc, epc, timer, executed>>
             /\ UNCHANGED <<serial, events, ops, viewSize, shouldResize>>]_vars

\* run_flutter returned because the windowing-protocol loop failed, while a
\* submitted task was still waiting to be received and an error was still
\* waiting in the fatal-error channel.
C32_Witness ==
    /\ exitBy = "wayland"
    /\ session = "failed"
    /\ rf = "returned"
    /\ chan # <<>>
    /\ terminate # <<>>
(* ------------------------ backing store claims (2) ---------------------- *)
\* C33: the objects of a backing store are freed only by collect: present, the
\* token's destruction callback, make_current, clear_current and
\* make_resource_current leave the allocated framebuffers, textures and
\* renderbuffers and the live tokens as they were, and a step after which an
\* object or a token is gone is a collect.
C33_OnlyCollectFrees ==
    [][/\ (calls' = calls + 1
           /\ last'.call \in {"present", "destruction", "make_current", "clear_current",
                               "make_resource_current"})
          => (gpu' = gpu /\ tokens' = tokens)
       /\ (~(gpu.framebuffers \subseteq gpu'.framebuffers)
           \/ ~(gpu.textures \subseteq gpu'.textures)
           \/ ~(gpu.renderbuffers \subseteq gpu'.renderbuffers)
           \/ ~(tokens \subseteq tokens'))
          => CallbackStep("collect")]_vars

\* The destruction callback was called while a backing store is alive, and its
\* three objects are still allocated.
C33_Witness ==
    /\ last.call = "destruction"
    /\ tokens # {}
    /\ \A t \in tokens :
          t[1] \in gpu.framebuffers /\ t[2] \in gpu.textures /\ t[3] \in gpu.renderbuffers
(* ------------------------ error path claims ----------------------------- *)
\* The present bound the render context to the surface of its view.
BoundOnSurface(call) == Len(call.gl) >= 2 /\ call.gl[2].op = "make_current" /\ call.gl[2].ok
\* EGL refused to unbind the context.
UnbindRefused(call) ==
    \E i \in 1..Len(call.gl) : call.gl[i].op = "make_not_current" /\ ~call.gl[i].ok

\* C34: on every return path of a present taken after the render context was
\* bound to the view's surface, the path of a failed swap included, the render
\* context is no longer current and the four bindings are those saved before
\* the layer in progress (stated here for the paths on which the unbind itself
\* was not refused).
C34_PresentCleansUpOnEveryPath ==
    [][(PresentStep /\ BoundOnSurface(last') /\ ~UnbindRefused(last')) =>
        /\ current' = NotCurrent
        /\ bindings' = bindings]_vars

\* C35: a create that returns false leaves no object it allocated and has
\* written no token to the output structure, the path where the unbind fails
\* after the three objects were allocated included.
C35_FailedCreateLeavesNothing ==
    [][(CallbackStep("create") /\ ~last'.ret) =>
        /\ gpu' = gpu
        /\ tokens' = tokens
        /\ ~last'.written]_vars
(* ------------------------- scheduler claims (3) ------------------------- *)
\* Handles of the tasks in the submission channel, in the heap, and run.
Submitted == {chan[i].id : i \in 1..Len(chan)}
Queued == {q.id : q \in queue}
Executed == {executed[i].id : i \in 1..Len(executed)}

\* C36: a burst of submissions that each become the earliest deadline does not
\* deadlock the scheduler.  While the receive step is suspended in its send
\* on the full wake channel, every submitted task is in the submission
\* channel, in the heap or has been run; the receive step resumes only by the
\* consumer loop taking a notification out of the wake channel; and, the
\* futures being polled fairly, it always resumes.
C36_SuspendedSendResumes ==
    /\ [](rpc = "send" =>
            /\ wake > WakeBuffer
            /\ Submitted \cup Queued \cup Executed = 1..posted)
    /\ [][(rpc = "send" /\ rpc' = "recv") =>
            /\ epc = "sleep"
            /\ wake' = wake - 1
            /\ UNCHANGED <<chan, queue, executed>>]_vars
    /\ []<>(rpc = "recv")

\* Two submissions, the second earlier than the first, were pushed before the
\* consumer took a notification: the wake channel is over its buffer and the
\* receive step is suspended in its send.
C36_Witness ==
    /\ rpc = "send"
    /\ wake = WakeBuffer + 1
    /\ Cardinality(queue) = 2
    /\ Len(chan) = 1
(* -------------------------- listener claims ---------------------------- *)
\* C37: a layer-surface event whose view identifier is not registered in the
\* compositor sends the 'Inconsistent' error on the fatal-error channel and
\* causes no window-metrics update, no acknowledgment and no change of a
\* stored size or of a should-resize flag.
C37_UnregisteredEventIsFatal ==
    [][(ConfigureStep /\ event'.view \notin Registered) =>
        /\ terminate' = Append(terminate, "Inconsistent")
        /\ ops' = ops
        /\ viewSize' = viewSize
        /\ shouldResize' = shouldResize]_vars

\* A Configure event with nonzero dimensions for view 5 was handled after one
\* for view 0: the error was sent and only the first one left effects.
C37_Witness ==
    /\ Len(events) = 2
    /\ event.view = 5
    /\ event.kind = "configure"
    /\ event.width = 800 /\ event.height = 600
    /\ terminate = <<"Inconsistent">>
    /\ Positions(ops, "metrics") = {1}
    /\ viewSize[0] = <<600, 800>>

\* The (width, height) pairs written together: the initial pair and the pair
\* of every configure event delivered so far.
WrittenPairs ==
    {<<InitWidth, InitHeight>>}
    \cup {<<events[i].width, events[i].height>> : i \in 1..Len(events)}

\* C38: a present that interleaves with the handling of a configure never
\* uses a torn size: the (width, height) it read, and resizes the surface to,
\* is the initial pair or the pair of one configure event, never the width of
\* one write with the height of another.
C38_NoTornSize ==
    [][/\ presenting'.active => presenting'.size \in WrittenPairs'
       /\ PresentStep =>
             /\ last'.gl[1].op = "resize"
             /\ <<last'.gl[1].args[2], last'.gl[1].args[3]>> \in WrittenPairs]_vars

\* A present read the size, then the listener wrote the width of an 800x600
\* configure and holds the lock with the height still to write, and the
\* present resized the surface to the pair it had read.
C38_Witness ==
    /\ writing.active
    /\ viewSize[0] = <<800, InitHeight>>
    /\ writing.stored = <<800, 600>>
    /\ last.call = "present"
    /\ last.gl[1] = Gl("resize", <<0, InitWidth, InitHeight>>, TRUE)

\* Serials the listener has acknowledged, in the order of the acknowledgments.
IsAck(o) == o.op = "ack"
Acks == SelectSeq(ops, IsAck)

\* C39: a configure is acknowledged only after the window-metrics update of
\* that same configure succeeded: every acknowledgment follows a successful
\* metrics update with its serial and dimensions; a configure with a zero
\* dimension and a configure whose metrics update failed are not acknowledged;
\* each configure is acknowledged at most once, in the order of reception.
C39_AckAfterMetricsSucceeded ==
    /\ \A i \in 1..Len(ops) :
          ops[i].op = "ack" =>
             /\ i > 1
             /\ ops[i - 1] = [ops[i] EXCEPT !.op = "metrics"]
             /\ ops[i - 1].result = "kSuccess"
    /\ \A k \in 1..Len(events) :
          (events[k].width = 0 \/ events[k].height = 0
           \/ \E i \in 1..Len(ops) : /\ ops[i].op = "metrics"
                                      /\ ops[i].serial = events[k].serial
                                      /\ ops[i].result # "kSuccess")
             => \A i \in 1..Len(ops) : ~(ops[i].op = "ack" /\ ops[i].serial = events[k].serial)
    /\ \A i, j \in 1..Len(Acks) : i < j => Acks[i].serial < Acks[j].serial

\* The metrics update of the first configure failed and that of the second
\* succeeded: only the second serial was acknowledged.
C39_Witness ==
    /\ Len(events) = 2
    /\ Len(ops) >= 3
    /\ ops[1].op = "metrics" /\ ops[1].serial = 1 /\ ops[1].result # "kSuccess"
    /\ Len(Acks) = 1
    /\ Acks[1].serial = 2
(* --------------------------- state claims ------------------------------ *)
\* C40: the engine state is written exactly once, by init_state, before the
\* Engine is started, so that every callback of the running Engine (a posted
\* task, an event of the view's surface) finds the state initialized and not
\* yet dropped; and when run_flutter returns after the Engine was initialized
\* but before init_state, the drop frees the state allocation without
\* dropping contents.
C40_StateWrittenBeforeRun ==
    /\ [](/\ Cardinality(LifeAt("init_state")) <= 1
          /\ \A r \in LifeAt("engine_run") : \E i \in LifeAt("init_state") : i < r
          /\ session = "running" => (rf = "select" /\ LifeAt("engine_run") # {})
          /\ stateInitialized <=> LifeAt("init_state") # {}
          /\ (rf = "returned" /\ LifeAt("engine_initialize") # {}
                 /\ LifeAt("init_state") = {})
                => /\ LifeAt("free_state") = {Len(life)}
                   /\ LifeAt("drop_state_contents") = {})
    /\ [][(posted' # posted \/ serial' # serial) =>
            /\ stateInitialized
            /\ LifeAt("init_state") # {}
            /\ LifeAt("drop_state_contents") = {}
            /\ LifeAt("free_state") = {}]_vars

\* The Engine was started after init_state and has since posted a task and
\* delivered a configure event, both read from the initialized state.
C40_Witness ==
    /\ session = "running"
    /\ life = <<"alloc_state", "engine_initialize", "init_state", "engine_run">>
    /\ stateInitialized
    /\ posted > 0
    /\ serial > 0
====
